---- MODULE Spec2Model ----
(***************************************************************************)
(* Model of the Flugzeug write path: FlugzeugWriteService (create, update, *)
(* delete with optimistic version check and cascading delete) on top of    *)
(* FlugzeugReadService.findById and a relational store with the three      *)
(* tables flugzeug, modell and sitzplatz.                                  *)
(*                                                                         *)
(* Every service call is a request handled by one of the request slots in  *)
(* Procs.  A handler is cut at its awaits on the database, so the steps of *)
(* two requests interleave exactly where the event loop lets them.         *)
(***************************************************************************)
EXTENDS Integers, Sequences, FiniteSets, TLC

(***************************************************************************)
(* Bounds of the model.                                                    *)
(***************************************************************************)
NumProcs == 2
MaxFlugzeuge == 1
MaxVersion == 2
MaxSitzplaetze == 1
MaxStored == 2

Procs == 1..NumProcs
FlugzeugIds == 1..MaxFlugzeuge

(***************************************************************************)
(* Values.  `undefined` of an optional string or boolean field is the      *)
(* string "undefined"; an undefined number is NoNumber.                    *)
(***************************************************************************)
Undefined == "undefined"
NoNumber == 0 - 1
NaN == 0 - 2
Quote == "\""

VARIABLES
    flugzeugTab,    \* table flugzeug: id -> row
    modellTab,      \* table modell: id -> row with the foreign key flugzeug
    sitzplatzTab,   \* table sitzplatz: id -> row with the foreign key flugzeug
    nextId,         \* the three id sequences of the database
    pc,             \* per request slot: the await the handler is parked at
    req,            \* per request slot: the arguments of the call
    loc,            \* per request slot: the handler's local variables
    last,           \* the call the last step ended and its outcome, NoCall if it ended none
    mails,          \* subjects handed to the mail service
    gelesen         \* what the find or findById the last step ended has read, if one has ended

vars == <<flugzeugTab, modellTab, sitzplatzTab, nextId, pc, req, loc, last, mails, gelesen>>

(***************************************************************************)
(* Version tokens are strings, modelled as sequences of characters.        *)
(***************************************************************************)
Digits == <<"0", "1", "2", "3", "4", "5", "6", "7", "8", "9">>

IsDigit(c) == \E i \in 1..10 : Digits[i] = c

DigitValue(c) == (CHOOSE i \in 1..10 : Digits[i] = c) - 1

\* Number.prototype.toString / template literal `${n}` for n >= 0
RECURSIVE NumberToString(_)
NumberToString(n) ==
    IF n < 10 THEN <<Digits[n + 1]>>
    ELSE NumberToString(n \div 10) \o <<Digits[(n % 10) + 1]>>

\* `"${version}"`: the quoted form the adapters produce
QuotedVersion(n) == <<Quote>> \o NumberToString(n) \o <<Quote>>

\* the most digits a version token may have: the 3 of \d{1,3}
MaxDigits == 3

\* the least version whose quoted form has more digits than that
VersionLimit == 10 ^ MaxDigits

\* the pattern with one digit more
VERSION_PATTERN_OneDigitMore(s) ==
    \E n \in 1..(MaxDigits + 1) :
        /\ Len(s) >= n + 2
        /\ s[1] = Quote
        /\ \A i \in 2..(n + 1) : IsDigit(s[i])
        /\ s[n + 2] = Quote

\* /^"\d{1,3}"/u .test(s): anchored at the start only
VERSION_PATTERN(s) ==
    \E n \in 1..MaxDigits :
        /\ Len(s) >= n + 2
        /\ s[1] = Quote
        /\ \A i \in 2..(n + 1) : IsDigit(s[i])
        /\ s[n + 2] = Quote

\* s.slice(1, -1)
Slice1(s) == IF Len(s) < 2 THEN << >> ELSE SubSeq(s, 2, Len(s) - 1)

\* Number.parseInt(s, 10) on a string that starts with a digit: the value of
\* the longest prefix of digits (parsing stops at the first other character).
RECURSIVE ParseDigits(_, _)
ParseDigits(s, acc) ==
    IF s = << >> \/ ~IsDigit(Head(s)) THEN acc
    ELSE ParseDigits(Tail(s), acc * 10 + DigitValue(Head(s)))

ParseInt(s) == IF s = << >> \/ ~IsDigit(Head(s)) THEN NaN ELSE ParseDigits(s, 0)

\* a < b of JavaScript numbers: every comparison with NaN is false
NumberLess(a, b) == a # NaN /\ b # NaN /\ a < b

(***************************************************************************)
(* Inputs the adapters hand to the service.                                *)
(***************************************************************************)
\* FlugzeugDTO: preis is positive (@IsPositive), einsatzbereit a boolean
\* (@IsBoolean), baujahr optional, modell required, sitzplaetze optional.
SitzplatzDTOs == [i \in 1..MaxSitzplaetze |-> "Klasse 1"]

FlugzeugDTOs ==
    { [preis |-> 99, einsatzbereit |-> "true", baujahr |-> "2022-02-28",
       modell |-> "Titelpost", sitzplaetze |-> [defined |-> TRUE, items |-> SitzplatzDTOs]],
      [preis |-> 50, einsatzbereit |-> "false", baujahr |-> Undefined,
       modell |-> "Alpha", sitzplaetze |-> [defined |-> FALSE, items |-> << >>]] }

\* FlugzeugDtoOhneRef: the body of an update
FlugzeugDtosOhneRef ==
    { [preis |-> 70, einsatzbereit |-> "false", baujahr |-> Undefined],
      [preis |-> 80, einsatzbereit |-> "true", baujahr |-> "2023-01-31"] }

\* new Date() at the time a request is mapped: "t0" for a create, "t1" for an update
Erzeugt == "t0"
Aktualisiert == "t1"

NoSitzplaetze == [defined |-> FALSE, items |-> << >>]

\* FlugzeugWriteController.#flugzeugDtoToFlugzeug: the object graph of a POST,
\* back-references set on the modell and on every sitzplatz
RestDtoToFlugzeug(dto) ==
    [id |-> NoNumber, version |-> NoNumber,
     preis |-> dto.preis, einsatzbereit |-> dto.einsatzbereit, baujahr |-> dto.baujahr,
     modell |-> << [id |-> NoNumber, modell |-> dto.modell, flugzeug |-> "this"] >>,
     sitzplaetze |->
        [defined |-> dto.sitzplaetze.defined,
         items |-> [i \in 1..Len(dto.sitzplaetze.items) |->
                        [id |-> NoNumber, sitzplatzklasse |-> dto.sitzplaetze.items[i],
                         flugzeug |-> "this"]]],
     erzeugt |-> Erzeugt, aktualisiert |-> Erzeugt]

\* FlugzeugMutationResolver.#flugzeugDtoToFlugzeug: the object graph of the
\* GraphQL create, back-reference set on the modell only
GraphQlDtoToFlugzeug(dto) ==
    [id |-> NoNumber, version |-> NoNumber,
     preis |-> dto.preis, einsatzbereit |-> dto.einsatzbereit, baujahr |-> dto.baujahr,
     modell |-> << [id |-> NoNumber, modell |-> dto.modell, flugzeug |-> "this"] >>,
     sitzplaetze |->
        [defined |-> dto.sitzplaetze.defined,
         items |-> [i \in 1..Len(dto.sitzplaetze.items) |->
                        [id |-> NoNumber, sitzplatzklasse |-> dto.sitzplaetze.items[i],
                         flugzeug |-> Undefined]]],
     erzeugt |-> Erzeugt, aktualisiert |-> Erzeugt]

\* the patch of an update with a creation timestamp of its own
DtoOhneRefToFlugzeug_WithErzeugt(dto) ==
    [id |-> NoNumber, version |-> NoNumber,
     preis |-> dto.preis, einsatzbereit |-> dto.einsatzbereit, baujahr |-> dto.baujahr,
     modell |-> << >>, sitzplaetze |-> NoSitzplaetze,
     erzeugt |-> Aktualisiert, aktualisiert |-> Aktualisiert]

\* #flugzeugDtoOhneRefToFlugzeug / #flugzeugUpdateDtoToFlugzeug: the patch of an update
DtoOhneRefToFlugzeug(dto) ==
    [id |-> NoNumber, version |-> NoNumber,
     preis |-> dto.preis, einsatzbereit |-> dto.einsatzbereit, baujahr |-> dto.baujahr,
     modell |-> << >>, sitzplaetze |-> NoSitzplaetze,
     erzeugt |-> Undefined, aktualisiert |-> Aktualisiert]

NewFlugzeuge ==
    {RestDtoToFlugzeug(d) : d \in FlugzeugDTOs} \cup {GraphQlDtoToFlugzeug(d) : d \in FlugzeugDTOs}

Patches == {DtoOhneRefToFlugzeug(d) : d \in FlugzeugDtosOhneRef}

\* version strings a client may send
Versions ==
    {QuotedVersion(v) : v \in 0..(MaxVersion + 1)}
    \cup { << >>, <<"a", "b", "c">>, <<"1">>, <<Quote, Quote>>, <<Quote, "1">>,
           <<Quote, "1", Quote, "a">>, <<"a", Quote, "1", Quote>>,
           <<Quote, "1", "0", "0", "0", Quote>> }

UpdateIds == FlugzeugIds \cup {NoNumber}

(***************************************************************************)
(* The relational store.                                                   *)
(***************************************************************************)
\* the value of a @VersionColumn in a newly inserted row
InitialVersion == 0

\* ids of the rows of a table whose foreign key is id, in ascending order
RECURSIVE SortedSeq(_)
SortedSeq(S) ==
    IF S = {} THEN << >>
    ELSE LET m == CHOOSE x \in S : \A y \in S : x <= y
         IN <<m>> \o SortedSeq(S \ {m})

ModellIdsOf(id) == {m \in DOMAIN modellTab : modellTab[m].flugzeug = id}
SitzplatzIdsOf(id) == {s \in DOMAIN sitzplatzTab : sitzplatzTab[s].flugzeug = id}

\* QueryBuilder.buildId(...).getOne(): flugzeug inner join modell, left join
\* sitzplaetze only if mitSitzplaetze; << >> is null
BuildIdGetOne(id, mitSitzplaetze) ==
    IF id \notin DOMAIN flugzeugTab \/ ModellIdsOf(id) = {} THEN << >>
    ELSE LET row == flugzeugTab[id]
             mid == CHOOSE m \in ModellIdsOf(id) : \A n \in ModellIdsOf(id) : m <= n
             sids == SortedSeq(SitzplatzIdsOf(id))
         IN << [id |-> id, version |-> row.version,
                preis |-> row.preis, einsatzbereit |-> row.einsatzbereit,
                baujahr |-> row.baujahr,
                modell |-> << [id |-> mid, modell |-> modellTab[mid].modell,
                               flugzeug |-> Undefined] >>,
                sitzplaetze |->
                    IF mitSitzplaetze
                    THEN [defined |-> TRUE,
                          items |-> [i \in 1..Len(sids) |->
                                        [id |-> sids[i],
                                         sitzplatzklasse |-> sitzplatzTab[sids[i]].sitzplatzklasse,
                                         flugzeug |-> Undefined]]]
                    ELSE NoSitzplaetze,
                erzeugt |-> row.erzeugt, aktualisiert |-> row.aktualisiert] >>

\* merge with target and source exchanged
Merge_ArgsSwapped(target, source) ==
    [id |-> IF target.id = NoNumber THEN source.id ELSE target.id,
     version |-> IF target.version = NoNumber THEN source.version ELSE target.version,
     preis |-> IF target.preis = NoNumber THEN source.preis ELSE target.preis,
     einsatzbereit |-> IF target.einsatzbereit = Undefined THEN source.einsatzbereit
                       ELSE target.einsatzbereit,
     baujahr |-> IF target.baujahr = Undefined THEN source.baujahr ELSE target.baujahr,
     modell |-> IF target.modell = << >> THEN source.modell ELSE target.modell,
     sitzplaetze |-> IF target.sitzplaetze.defined THEN target.sitzplaetze
                     ELSE source.sitzplaetze,
     erzeugt |-> IF target.erzeugt = Undefined THEN source.erzeugt ELSE target.erzeugt,
     aktualisiert |-> IF target.aktualisiert = Undefined THEN source.aktualisiert
                      ELSE target.aktualisiert]

\* Repository.merge(target, source): every property of source that is not
\* undefined overwrites the property of target
Merge(target, source) ==
    [id |-> IF source.id = NoNumber THEN target.id ELSE source.id,
     version |-> IF source.version = NoNumber THEN target.version ELSE source.version,
     preis |-> IF source.preis = NoNumber THEN target.preis ELSE source.preis,
     einsatzbereit |-> IF source.einsatzbereit = Undefined THEN target.einsatzbereit
                       ELSE source.einsatzbereit,
     baujahr |-> IF source.baujahr = Undefined THEN target.baujahr ELSE source.baujahr,
     modell |-> IF source.modell = << >> THEN target.modell ELSE source.modell,
     sitzplaetze |-> IF source.sitzplaetze.defined THEN source.sitzplaetze
                     ELSE target.sitzplaetze,
     erzeugt |-> IF source.erzeugt = Undefined THEN target.erzeugt ELSE source.erzeugt,
     aktualisiert |-> IF source.aktualisiert = Undefined THEN target.aktualisiert
                      ELSE source.aktualisiert]

\* the columns of a flugzeug row taken from an entity
RowOf(e, version) ==
    [version |-> version, preis |-> e.preis, einsatzbereit |-> e.einsatzbereit,
     baujahr |-> e.baujahr, erzeugt |-> e.erzeugt, aktualisiert |-> e.aktualisiert]

\* f with the key k bound to v
Put(f, k, v) == [x \in DOMAIN f \cup {k} |-> IF x = k THEN v ELSE f[x]]

\* f without the keys in K
Drop(f, K) == [x \in DOMAIN f \ K |-> f[x]]

(***************************************************************************)
(* Search criteria and the queries QueryBuilder.build compiles from them.  *)
(***************************************************************************)
UpperCase == <<"A", "B", "C", "D", "E", "F", "G", "H", "I", "J", "K", "L", "M",
               "N", "O", "P", "Q", "R", "S", "T", "U", "V", "W", "X", "Y", "Z">>
LowerCase == <<"a", "b", "c", "d", "e", "f", "g", "h", "i", "j", "k", "l", "m",
               "n", "o", "p", "q", "r", "s", "t", "u", "v", "w", "x", "y", "z">>

\* the character a case-insensitive comparison compares
ToLower(c) ==
    IF \E i \in 1..26 : UpperCase[i] = c
    THEN LowerCase[CHOOSE i \in 1..26 : UpperCase[i] = c]
    ELSE c

\* s ILIKE pattern: % matches any run of characters, _ any one character,
\* every other character itself without regard to case
RECURSIVE ILike(_, _)
ILike(s, pattern) ==
    IF pattern = << >> THEN s = << >>
    ELSE IF Head(pattern) = "%"
    THEN ILike(s, Tail(pattern)) \/ (s # << >> /\ ILike(Tail(s), pattern))
    ELSE /\ s # << >>
         /\ (Head(pattern) = "_" \/ ToLower(Head(pattern)) = ToLower(Head(s)))
         /\ ILike(Tail(s), Tail(pattern))

\* the columns that may hold NULL
Nullable(column) == column = "baujahr"

\* column = y of SQL: never true of a NULL
SqlEquals(column, x, y) == IF Nullable(column) /\ x = Undefined THEN FALSE ELSE x = y

\* Suchkriterien: undefined, or an object whose properties are listed in
\* the order Object.keys gives them; a value carries its typeof
NoSuchkriterien == [defined |-> FALSE, props |-> << >>]

Keys(props) == {props[i].key : i \in 1..Len(props)}

\* Object.getOwnPropertyNames(new Flugzeug())
FlugzeugProps ==
    {"id", "version", "preis", "einsatzbereit", "baujahr", "modell", "sitzplaetze",
     "erzeugt", "aktualisiert"}

\* #checkKeys: every key is a property of Flugzeug, or javascript, or typescript
checkKeys(keys) ==
    \A key \in keys : ~(key \notin FlugzeugProps /\ key # "javascript" /\ key # "typescript")

\* the columns of the tables the aliases flugzeug and modell stand for
Columns(alias) ==
    IF alias = "flugzeug"
    THEN {"id", "version", "preis", "einsatzbereit", "baujahr", "erzeugt", "aktualisiert"}
    ELSE {"id", "modell"}

\* queryBuilder.where / queryBuilder.andWhere with one condition and its parameters
Condition(method, alias, column, operator, placeholder, name, value) ==
    [method |-> method, alias |-> alias, column |-> column, operator |-> operator,
     placeholder |-> placeholder, parameters |-> [name |-> name, value |-> value]]

\* the loop with every condition attached by where
RECURSIVE BuildProps_AlwaysWhere(_, _)
BuildProps_AlwaysWhere(props, useWhere) ==
    IF props = << >> THEN << >>
    ELSE <<Condition("where", "flugzeug", Head(props).key,
                     "=", Head(props).key, Head(props).key, Head(props).value)>>
         \o BuildProps_AlwaysWhere(Tail(props), FALSE)

\* the loop over Object.keys(props): one equality per property, the first
\* condition of the query with where, every later one with andWhere
RECURSIVE BuildProps(_, _)
BuildProps(props, useWhere) ==
    IF props = << >> THEN << >>
    ELSE <<Condition(IF useWhere THEN "where" ELSE "andWhere", "flugzeug", Head(props).key,
                     "=", Head(props).key, Head(props).key, Head(props).value)>>
         \o BuildProps(Tail(props), FALSE)

\* build with the condition on the modell attached after the loop, with where
build_ModellLast(suchkriterien) ==
    LET modell == SelectSeq(suchkriterien, LAMBDA kv : kv.key = "modell")
        props == SelectSeq(suchkriterien, LAMBDA kv : kv.key # "modell")
    IN IF modell # << >> /\ modell[1].type = "string"
       THEN BuildProps(props, TRUE)
            \o <<Condition("where", "modell", "modell", "ilike", "modell", "modell",
                           <<"%">> \o modell[1].value \o <<"%">>)>>
       ELSE BuildProps(props, TRUE)

\* QueryBuilder.build({ modell, ...props }): the calls made on the query builder
build(suchkriterien) ==
    LET modell == SelectSeq(suchkriterien, LAMBDA kv : kv.key = "modell")
        props == SelectSeq(suchkriterien, LAMBDA kv : kv.key # "modell")
    IN IF modell # << >> /\ modell[1].type = "string"
       THEN <<Condition("where", "modell", "modell", "ilike", "modell", "modell",
                        <<"%">> \o modell[1].value \o <<"%">>)>>
            \o BuildProps(props, FALSE)
       ELSE BuildProps(props, TRUE)

\* queryBuilder.innerJoinAndSelect / leftJoinAndSelect of a relation of the
\* entity, under an alias
Join(method, relation, alias) == [method |-> method, relation |-> relation, alias |-> alias]

\* the join of QueryBuilder.build: innerJoinAndSelect('flugzeug.modell', 'modell')
buildJoins == <<Join("innerJoinAndSelect", "modell", "modell")>>

\* QueryBuilder.buildId({ id, mitSitzplaetze }): the joins and the condition
buildId(id, mitSitzplaetze) ==
    [joins |-> <<Join("innerJoinAndSelect", "modell", "modell")>>
               \o (IF mitSitzplaetze THEN <<Join("leftJoinAndSelect", "sitzplaetze", "sitzplatz")>>
                   ELSE << >>),
     calls |-> <<Condition("where", "flugzeug", "id", "=", "id", "id", id)>>]

\* The repository has a second class QueryBuilder, in a file of its own.
\* Its build({ modell, ...props }): the condition on the name of the modell
\* names the column titel and the placeholder :titel, with the parameter modell
buildPart001(suchkriterien) ==
    LET modell == SelectSeq(suchkriterien, LAMBDA kv : kv.key = "modell")
        props == SelectSeq(suchkriterien, LAMBDA kv : kv.key # "modell")
    IN IF modell # << >> /\ modell[1].type = "string"
       THEN <<Condition("where", "modell", "titel", "ilike", "titel", "modell",
                        <<"%">> \o modell[1].value \o <<"%">>)>>
            \o BuildProps(props, FALSE)
       ELSE BuildProps(props, TRUE)

\* its buildId({ id, mitAbbildungen }): the joins are those of the relations
\* titel and abbildungen
buildIdPart001(id, mitAbbildungen) ==
    [joins |-> <<Join("innerJoinAndSelect", "titel", "modell")>>
               \o (IF mitAbbildungen THEN <<Join("leftJoinAndSelect", "abbildungen", "abbildung")>>
                   ELSE << >>),
     calls |-> <<Condition("where", "flugzeug", "id", "=", "id", "id", id)>>]

\* the WHERE clause of the query: where replaces the conditions set before
\* it, andWhere adds one
RECURSIVE Wheres(_)
Wheres(calls) ==
    IF calls = << >> THEN << >>
    ELSE LET c == calls[Len(calls)]
         IN IF c.method = "where" THEN <<c>>
            ELSE Append(Wheres(SubSeq(calls, 1, Len(calls) - 1)), c)

\* the database rejects a condition on a column the table does not have, or
\* with a placeholder that has no parameter
Executable(c) == c.column \in Columns(c.alias) /\ c.placeholder = c.parameters.name

\* the value of a column of the row of flugzeug id joined with its modell
ColumnValue(id, alias, column) ==
    IF alias = "flugzeug"
    THEN IF column = "id" THEN id ELSE flugzeugTab[id][column]
    ELSE LET mid == CHOOSE m \in ModellIdsOf(id) : \A n \in ModellIdsOf(id) : m <= n
         IN IF column = "id" THEN mid ELSE modellTab[mid][column]

Satisfies(id, c) ==
    IF c.operator = "ilike"
    THEN ILike(ColumnValue(id, c.alias, c.column), c.parameters.value)
    ELSE SqlEquals(c.column, ColumnValue(id, c.alias, c.column), c.parameters.value)

\* getMany() of a query built by build: flugzeug inner join modell, filtered
\* by the WHERE clause.  The order of the rows is not specified: the result
\* is the set of the entities.
GetMany(calls) ==
    LET wheres == Wheres(calls)
    IN IF \E i \in 1..Len(wheres) : ~Executable(wheres[i])
       THEN [failed |-> TRUE, flugzeuge |-> {}]
       ELSE [failed |-> FALSE,
             flugzeuge |->
                {BuildIdGetOne(id, FALSE)[1] :
                    id \in {i \in DOMAIN flugzeugTab :
                               /\ ModellIdsOf(i) # {}
                               /\ \A k \in 1..Len(wheres) : Satisfies(i, wheres[k])}}]

NichtsGelesen ==
    [suchkriterien |-> NoSuchkriterien,  \* the argument of find
     compiled |-> FALSE,                 \* build was called
     joins |-> << >>,                    \* the joins of the query build has compiled
     calls |-> << >>,                    \* the conditions of that query
     flugzeuge |-> {},                   \* the entities returned
     message |-> << >>]                  \* the message of the NotFoundException

(***************************************************************************)
(* Request slots.                                                          *)
(***************************************************************************)
NoFlugzeug ==
    [id |-> NoNumber, version |-> NoNumber, preis |-> NoNumber,
     einsatzbereit |-> Undefined, baujahr |-> Undefined, modell |-> << >>,
     sitzplaetze |-> NoSitzplaetze, erzeugt |-> Undefined, aktualisiert |-> Undefined]

NoReq == [op |-> "none", id |-> NoNumber, flugzeug |-> NoFlugzeug, version |-> << >>]

NoTx == [modell |-> {}, sitzplatz |-> {}, flugzeug |-> {}]

NoLoc ==
    [version |-> NoNumber,  \* the number parsed from the version string
     db |-> << >>,          \* the entity read by findById or returned by save
     rest |-> << >>,        \* ids of the sitzplaetze the delete loop still has to visit
     tx |-> NoTx,           \* rows deleted inside the open transaction
     affected |-> 0]        \* DeleteResult.affected of the flugzeug row

NoCall == [op |-> "none", id |-> NoNumber, kind |-> "none", value |-> NoNumber]

Init ==
    /\ flugzeugTab = << >>
    /\ modellTab = << >>
    /\ sitzplatzTab = << >>
    /\ nextId = [flugzeug |-> 1, modell |-> 1, sitzplatz |-> 1]
    /\ pc = [p \in Procs |-> "idle"]
    /\ req = [p \in Procs |-> NoReq]
    /\ loc = [p \in Procs |-> NoLoc]
    /\ last = NoCall
    /\ mails = << >>
    /\ gelesen = NichtsGelesen

\* the call of slot p ends: it returns value (kind "ok") or throws kind
Return(p, kind, value) ==
    /\ pc' = [pc EXCEPT ![p] = "idle"]
    /\ last' = [op |-> req[p].op, id |-> req[p].id, kind |-> kind, value |-> value]
    /\ req' = [req EXCEPT ![p] = NoReq]
    /\ loc' = [loc EXCEPT ![p] = NoLoc]

\* the call of slot p ends before its first await
ReturnNow(p, op, id, kind, value) ==
    /\ pc[p] = "idle"
    /\ pc' = pc
    /\ req' = req
    /\ loc' = loc
    /\ last' = [op |-> op, id |-> id, kind |-> kind, value |-> value]

\* slot p starts a call
Call(p, op, id, flugzeug, version) ==
    /\ pc[p] = "idle"
    /\ req' = [req EXCEPT ![p] = [op |-> op, id |-> id, flugzeug |-> flugzeug,
                                  version |-> version]]

\* rows another slot's open transaction has deleted and still holds locked
LockedByOther(p, table, rowId) ==
    \E q \in DOMAIN loc \ {p} : rowId \in loc[q].tx[table]

(***************************************************************************)
(* FlugzeugReadService.findById as a request of its own.                   *)
(***************************************************************************)
\* `Es gibt kein Flugzeug mit der ID ${id}.`
NotFoundMessage(id) == <<"Es gibt kein Flugzeug mit der ID ">> \o NumberToString(id) \o <<".">>

\* findById that hands the null of getOne to its caller
findById_NullReturned(p, id, mitSitzplaetze) ==
    /\ LET found == BuildIdGetOne(id, mitSitzplaetze)
       IN /\ ReturnNow(p, "findById", id, "ok",
                       IF found = << >> THEN NoNumber ELSE found[1].version)
          /\ gelesen' = [NichtsGelesen EXCEPT !.flugzeuge = {found[i] : i \in 1..Len(found)}]
    /\ UNCHANGED <<flugzeugTab, modellTab, sitzplatzTab, nextId, mails>>

findById(p, id, mitSitzplaetze) ==
    /\ LET found == BuildIdGetOne(id, mitSitzplaetze)
       IN IF found = << >>
          THEN /\ ReturnNow(p, "findById", id, "NotFound", NoNumber)
               /\ gelesen' = [NichtsGelesen EXCEPT !.message = NotFoundMessage(id)]
          ELSE /\ ReturnNow(p, "findById", id, "ok", found[1].version)
               /\ gelesen' = [NichtsGelesen EXCEPT !.flugzeuge = {found[1]}]
    /\ UNCHANGED <<flugzeugTab, modellTab, sitzplatzTab, nextId, mails>>

(***************************************************************************)
(* FlugzeugReadService.find                                                *)
(***************************************************************************)
\* the find call ends with the outcome kind; gelesen records its criteria,
\* the query it has compiled, if it has compiled one, and what it returns
FindReturn(p, suchkriterien, compiled, calls, kind, flugzeuge, message) ==
    /\ ReturnNow(p, "find", NoNumber, kind, NoNumber)
    /\ gelesen' = [suchkriterien |-> suchkriterien, compiled |-> compiled,
                   joins |-> IF compiled THEN buildJoins ELSE << >>, calls |-> calls,
                   flugzeuge |-> flugzeuge, message |-> message]

\* find without the branch for criteria that have no keys
find_NoEmptyBranch(p, suchkriterien) ==
    /\ IF ~suchkriterien.defined
       THEN FindReturn(p, suchkriterien, TRUE, build(<< >>), "ok",
                       GetMany(build(<< >>)).flugzeuge, << >>)
       ELSE IF ~checkKeys(Keys(suchkriterien.props))
       THEN FindReturn(p, suchkriterien, FALSE, << >>, "NotFound", {},
                       <<"Ungueltige Suchkriterien">>)
       ELSE LET calls == build(suchkriterien.props)
                flugzeuge == GetMany(calls)
            IN IF flugzeuge.failed
               THEN FindReturn(p, suchkriterien, TRUE, calls, "QueryFailed", {}, << >>)
               ELSE IF flugzeuge.flugzeuge = {}
               THEN FindReturn(p, suchkriterien, TRUE, calls, "NotFound", {},
                               <<"Keine Flugzeuge gefunden: ", suchkriterien.props>>)
               ELSE FindReturn(p, suchkriterien, TRUE, calls, "ok", flugzeuge.flugzeuge,
                               << >>)
    /\ UNCHANGED <<flugzeugTab, modellTab, sitzplatzTab, nextId, mails>>

find(p, suchkriterien) ==
    /\ IF ~suchkriterien.defined
       THEN FindReturn(p, suchkriterien, TRUE, build(<< >>), "ok",
                       GetMany(build(<< >>)).flugzeuge, << >>)
       ELSE IF Keys(suchkriterien.props) = {}
       THEN FindReturn(p, suchkriterien, TRUE, build(suchkriterien.props), "ok",
                       GetMany(build(suchkriterien.props)).flugzeuge, << >>)
       ELSE IF ~checkKeys(Keys(suchkriterien.props))
       THEN FindReturn(p, suchkriterien, FALSE, << >>, "NotFound", {},
                       <<"Ungueltige Suchkriterien">>)
       ELSE LET calls == build(suchkriterien.props)
                flugzeuge == GetMany(calls)
            IN IF flugzeuge.failed
               THEN FindReturn(p, suchkriterien, TRUE, calls, "QueryFailed", {}, << >>)
               ELSE IF flugzeuge.flugzeuge = {}
               THEN FindReturn(p, suchkriterien, TRUE, calls, "NotFound", {},
                               <<"Keine Flugzeuge gefunden: ", suchkriterien.props>>)
               ELSE FindReturn(p, suchkriterien, TRUE, calls, "ok", flugzeuge.flugzeuge,
                               << >>)
    /\ UNCHANGED <<flugzeugTab, modellTab, sitzplatzTab, nextId, mails>>

(***************************************************************************)
(* FlugzeugWriteService.create                                             *)
(***************************************************************************)
\* Repository.save of a new object graph: one insert per entity of the
\* graph, the children with the foreign key of the new flugzeug row
SaveNew(flugzeug) ==
    LET id == nextId.flugzeug
        mid == nextId.modell
        n == Len(flugzeug.sitzplaetze.items)
        sid0 == nextId.sitzplatz
    IN /\ flugzeugTab' = Put(flugzeugTab, id, RowOf(flugzeug, InitialVersion))
       /\ modellTab' = IF flugzeug.modell = << >> THEN modellTab
                       ELSE Put(modellTab, mid,
                                [modell |-> flugzeug.modell[1].modell, flugzeug |-> id])
       /\ sitzplatzTab' =
            [s \in DOMAIN sitzplatzTab \cup (sid0..(sid0 + n - 1)) |->
                IF s \in DOMAIN sitzplatzTab THEN sitzplatzTab[s]
                ELSE [sitzplatzklasse |-> flugzeug.sitzplaetze.items[s - sid0 + 1].sitzplatzklasse,
                      flugzeug |-> id]]
       /\ nextId' = [flugzeug |-> id + 1,
                     modell |-> IF flugzeug.modell = << >> THEN mid ELSE mid + 1,
                     sitzplatz |-> sid0 + n]

\* create that keeps the identifier the entity had before the save
create_WithoutId(p, flugzeug) ==
    /\ Call(p, "create", NoNumber, flugzeug, << >>)
    /\ nextId.flugzeug <= MaxFlugzeuge
    /\ SaveNew(flugzeug)
    /\ pc' = [pc EXCEPT ![p] = "sendmail"]
    /\ loc' = [loc EXCEPT ![p].db = << flugzeug >>]
    /\ last' = NoCall
    /\ gelesen' = NichtsGelesen
    /\ UNCHANGED <<mails>>

\* create up to the await of #sendmail: the save has committed
create(p, flugzeug) ==
    /\ Call(p, "create", NoNumber, flugzeug, << >>)
    /\ nextId.flugzeug <= MaxFlugzeuge
    /\ SaveNew(flugzeug)
    /\ pc' = [pc EXCEPT ![p] = "sendmail"]
    /\ loc' = [loc EXCEPT ![p].db = << [flugzeug EXCEPT !.id = nextId.flugzeug,
                                                      !.version = InitialVersion] >>]
    /\ last' = NoCall
    /\ gelesen' = NichtsGelesen
    /\ UNCHANGED <<mails>>

\* create whose save is rejected by the database
createFailed(p, flugzeug) ==
    /\ nextId.flugzeug <= MaxFlugzeuge
    /\ ReturnNow(p, "create", NoNumber, "PersistFailed", NoNumber)
    /\ gelesen' = NichtsGelesen
    /\ UNCHANGED <<flugzeugTab, modellTab, sitzplatzTab, nextId, mails>>

\* MailService.sendmail: the mail is handed to the mail server; a mail that
\* cannot be delivered is dropped, and the caller is not told
MailServiceSendmail(sent, subject, delivered) ==
    IF delivered THEN Append(sent, subject) ELSE sent

\* create that passes a failure of the mail service on to its caller
sendmail_Propagates(p) ==
    /\ pc[p] = "sendmail"
    /\ \E delivered \in BOOLEAN :
          /\ mails' = MailServiceSendmail(mails, <<"Neues Flugzeug", loc[p].db[1].id>>, delivered)
          /\ IF delivered THEN Return(p, "ok", loc[p].db[1].id)
             ELSE Return(p, "MailFailed", NoNumber)
    /\ gelesen' = NichtsGelesen
    /\ UNCHANGED <<flugzeugTab, modellTab, sitzplatzTab, nextId>>

\* create that calls #sendmail a second time
sendmail_Twice(p) ==
    /\ pc[p] = "sendmail"
    /\ \E delivered \in BOOLEAN :
          mails' = MailServiceSendmail(
                       MailServiceSendmail(mails, <<"Neues Flugzeug", loc[p].db[1].id>>, delivered),
                       <<"Neues Flugzeug", loc[p].db[1].id>>, delivered)
    /\ Return(p, "ok", loc[p].db[1].id)
    /\ gelesen' = NichtsGelesen
    /\ UNCHANGED <<flugzeugTab, modellTab, sitzplatzTab, nextId>>

\* #sendmail and the return of create
sendmail(p) ==
    /\ pc[p] = "sendmail"
    /\ \E delivered \in BOOLEAN :
          mails' = MailServiceSendmail(mails, <<"Neues Flugzeug", loc[p].db[1].id>>, delivered)
    /\ Return(p, "ok", loc[p].db[1].id)
    /\ gelesen' = NichtsGelesen
    /\ UNCHANGED <<flugzeugTab, modellTab, sitzplatzTab, nextId>>

(***************************************************************************)
(* FlugzeugWriteService.update                                             *)
(***************************************************************************)
\* update and #validateUpdate up to the await of findById: the id check,
\* the pattern test and the parse of the version string
update(p, id, flugzeug, version) ==
    /\ IF id = NoNumber
       THEN ReturnNow(p, "update", id, "NotFound", NoNumber)
       ELSE IF ~VERSION_PATTERN(version)
       THEN ReturnNow(p, "update", id, "VersionInvalid", NoNumber)
       ELSE /\ Call(p, "update", id, flugzeug, version)
            /\ pc' = [pc EXCEPT ![p] = "validateUpdate"]
            /\ loc' = [loc EXCEPT ![p].version = ParseInt(Slice1(version))]
            /\ last' = NoCall
    /\ gelesen' = NichtsGelesen
    /\ UNCHANGED <<flugzeugTab, modellTab, sitzplatzTab, nextId, mails>>

\* the comparison with its operands exchanged
VersionOutdated_Reversed(version, versionDb) == NumberLess(versionDb, version)

\* the comparison as a test for inequality
VersionOutdated_Strict(version, versionDb) == version # versionDb

\* version < versionDb
VersionOutdated(version, versionDb) == NumberLess(version, versionDb)

\* #validateUpdate from the result of findById on, and update up to the
\* await of save: the version comparison and the merge
validateUpdate(p) ==
    /\ pc[p] = "validateUpdate"
    /\ LET flugzeugDb == BuildIdGetOne(req[p].id, FALSE)
       IN IF flugzeugDb = << >>
          THEN Return(p, "NotFound", NoNumber)
          ELSE IF VersionOutdated(loc[p].version, flugzeugDb[1].version)
          THEN Return(p, "VersionOutdated", loc[p].version)
          ELSE /\ pc' = [pc EXCEPT ![p] = "save"]
               /\ loc' = [loc EXCEPT ![p].db = << Merge(flugzeugDb[1], req[p].flugzeug) >>]
               /\ last' = NoCall
               /\ UNCHANGED req
    /\ gelesen' = NichtsGelesen
    /\ UNCHANGED <<flugzeugTab, modellTab, sitzplatzTab, nextId, mails>>

\* the version the database gives a row that is updated
NextVersion(versionDb) == versionDb + 1

\* Repository.save of an entity that has an id: an UPDATE of the row with
\* that id, the version column incremented by the database; an INSERT of the
\* entity and of its modell if no such row is left.
SaveMerged(merged) ==
    IF merged.id \in DOMAIN flugzeugTab
    THEN /\ flugzeugTab' = Put(flugzeugTab, merged.id,
                               RowOf(merged, NextVersion(flugzeugTab[merged.id].version)))
         /\ modellTab' = modellTab
    ELSE /\ flugzeugTab' = Put(flugzeugTab, merged.id, RowOf(merged, InitialVersion))
         /\ modellTab' = IF merged.modell = << >> THEN modellTab
                         ELSE Put(modellTab, merged.modell[1].id,
                                  [modell |-> merged.modell[1].modell, flugzeug |-> merged.id])

\* update that numbers the new row itself, from the version it has read
updateSave_EntityVersion(p) ==
    /\ pc[p] = "save"
    /\ LET merged == loc[p].db[1]
       IN /\ ~LockedByOther(p, "flugzeug", merged.id)
          /\ merged.id \in DOMAIN flugzeugTab
          /\ merged.version < MaxVersion
          /\ flugzeugTab' = Put(flugzeugTab, merged.id, RowOf(merged, merged.version + 1))
          /\ modellTab' = modellTab
          /\ Return(p, "ok", merged.version + 1)
    /\ gelesen' = NichtsGelesen
    /\ UNCHANGED <<sitzplatzTab, nextId, mails>>

\* update that compares the version again when it writes
updateSave_VersionChecked(p) ==
    /\ pc[p] = "save"
    /\ LET merged == loc[p].db[1]
       IN /\ ~LockedByOther(p, "flugzeug", merged.id)
          /\ merged.id \in DOMAIN flugzeugTab => flugzeugTab[merged.id].version < MaxVersion
          /\ IF merged.id \in DOMAIN flugzeugTab
                /\ flugzeugTab[merged.id].version # merged.version
             THEN /\ Return(p, "VersionOutdated", loc[p].version)
                  /\ UNCHANGED <<flugzeugTab, modellTab>>
             ELSE /\ SaveMerged(merged)
                  /\ Return(p, "ok", flugzeugTab'[merged.id].version)
    /\ gelesen' = NichtsGelesen
    /\ UNCHANGED <<sitzplatzTab, nextId, mails>>

\* the versions a row is updated from: the first MaxVersion ones, and
\* those within MaxVersion of VersionLimit
Updatable(versionDb) ==
    \/ versionDb < MaxVersion
    \/ versionDb >= VersionLimit - MaxVersion /\ versionDb < VersionLimit + MaxVersion

\* update from the save on: the write and the returned version
updateSave(p) ==
    /\ pc[p] = "save"
    /\ LET merged == loc[p].db[1]
       IN /\ ~LockedByOther(p, "flugzeug", merged.id)
          /\ merged.id \in DOMAIN flugzeugTab => Updatable(flugzeugTab[merged.id].version)
          /\ SaveMerged(merged)
          /\ Return(p, "ok", flugzeugTab'[merged.id].version)
    /\ gelesen' = NichtsGelesen
    /\ UNCHANGED <<sitzplatzTab, nextId, mails>>

(***************************************************************************)
(* FlugzeugWriteController.put                                             *)
(***************************************************************************)
\* HttpStatus of the responses of put
NO_CONTENT == 204
PRECONDITION_FAILED == 412
PRECONDITION_REQUIRED == 428

\* @Headers('If-Match') version: string | undefined
NoHeader == [defined |-> FALSE, value |-> << >>]

Header(value) == [defined |-> TRUE, value |-> value]

IfMatchHeaders == {NoHeader} \cup {Header(version) : version \in Versions}

\* res.header('ETag', `"${neueVersion}"`).send() under @HttpCode(NO_CONTENT)
putResponse(neueVersion) == [status |-> NO_CONTENT, etag |-> QuotedVersion(neueVersion)]

\* put that answers a missing header as it answers a wrong one
put_PreconditionFailed(p, id, flugzeugDTO, version) ==
    IF ~version.defined
    THEN /\ ReturnNow(p, "put", id, "PreconditionRequired", PRECONDITION_FAILED)
         /\ gelesen' = NichtsGelesen
         /\ UNCHANGED <<flugzeugTab, modellTab, sitzplatzTab, nextId, mails>>
    ELSE update(p, id, DtoOhneRefToFlugzeug(flugzeugDTO), version.value)

\* put up to the first await: the answer to a request without If-Match, or
\* the mapping of the body and the call of update
put(p, id, flugzeugDTO, version) ==
    IF ~version.defined
    THEN /\ ReturnNow(p, "put", id, "PreconditionRequired", PRECONDITION_REQUIRED)
         /\ gelesen' = NichtsGelesen
         /\ UNCHANGED <<flugzeugTab, modellTab, sitzplatzTab, nextId, mails>>
    ELSE update(p, id, DtoOhneRefToFlugzeug(flugzeugDTO), version.value)

(***************************************************************************)
(* FlugzeugWriteService.delete                                             *)
(***************************************************************************)
\* delete up to the start of the transaction: findById with the sitzplaetze
delete(p, id) ==
    /\ LET flugzeug == BuildIdGetOne(id, TRUE)
       IN IF flugzeug = << >>
          THEN ReturnNow(p, "delete", id, "NotFound", NoNumber)
          ELSE /\ Call(p, "delete", id, NoFlugzeug, << >>)
               /\ pc' = [pc EXCEPT ![p] = "deleteModell"]
               /\ loc' = [loc EXCEPT ![p].db = flugzeug]
               /\ last' = NoCall
    /\ gelesen' = NichtsGelesen
    /\ UNCHANGED <<flugzeugTab, modellTab, sitzplatzTab, nextId, mails>>

\* transactionalMgr.delete(table, rowId) inside the transaction of slot p:
\* the row, if it is there, is deleted for the transaction and stays locked
TxDelete(p, table, tab, rowId) ==
    IF rowId \in DOMAIN tab
    THEN [loc[p].tx EXCEPT ![table] = @ \cup {rowId}]
    ELSE loc[p].tx

\* the modell deleted through the repository, outside the transaction
deleteModell_Untransacted(p) ==
    /\ pc[p] = "deleteModell"
    /\ LET flugzeug == loc[p].db[1]
           sitzplaetze == IF flugzeug.sitzplaetze.defined THEN flugzeug.sitzplaetze.items
                          ELSE << >>
       IN /\ modellTab' = IF flugzeug.modell = << >> THEN modellTab
                          ELSE Drop(modellTab, {flugzeug.modell[1].id})
          /\ loc' = [loc EXCEPT ![p].rest = [i \in 1..Len(sitzplaetze) |-> sitzplaetze[i].id]]
    /\ pc' = [pc EXCEPT ![p] = "deleteSitzplaetze"]
    /\ last' = NoCall
    /\ gelesen' = NichtsGelesen
    /\ UNCHANGED <<flugzeugTab, sitzplatzTab, nextId, mails, req>>

\* transactionalMgr.delete(Modell, modellId)
deleteModell(p) ==
    /\ pc[p] = "deleteModell"
    /\ LET flugzeug == loc[p].db[1]
           sitzplaetze == IF flugzeug.sitzplaetze.defined THEN flugzeug.sitzplaetze.items
                          ELSE << >>
       IN /\ flugzeug.modell # << >> => ~LockedByOther(p, "modell", flugzeug.modell[1].id)
          /\ loc' = [loc EXCEPT
                        ![p].tx = IF flugzeug.modell = << >> THEN @
                                  ELSE TxDelete(p, "modell", modellTab, flugzeug.modell[1].id),
                        ![p].rest = [i \in 1..Len(sitzplaetze) |-> sitzplaetze[i].id]]
    /\ pc' = [pc EXCEPT ![p] = "deleteSitzplaetze"]
    /\ last' = NoCall
    /\ gelesen' = NichtsGelesen
    /\ UNCHANGED <<flugzeugTab, modellTab, sitzplatzTab, nextId, mails, req>>

\* one pass of the loop: transactionalMgr.delete(Sitzplatz, sitzplatz.id)
deleteSitzplatz(p) ==
    /\ pc[p] = "deleteSitzplaetze"
    /\ loc[p].rest # << >>
    /\ ~LockedByOther(p, "sitzplatz", Head(loc[p].rest))
    /\ loc' = [loc EXCEPT ![p].tx = TxDelete(p, "sitzplatz", sitzplatzTab, Head(loc[p].rest)),
                          ![p].rest = Tail(@)]
    /\ last' = NoCall
    /\ gelesen' = NichtsGelesen
    /\ UNCHANGED <<flugzeugTab, modellTab, sitzplatzTab, nextId, mails, pc, req>>

\* the foreign keys of modell and sitzplatz: a flugzeug row cannot be deleted
\* while a row that the transaction of slot p has not deleted refers to it
Referenced(p, id) ==
    \/ ModellIdsOf(id) \ loc[p].tx.modell # {}
    \/ SitzplatzIdsOf(id) \ loc[p].tx.sitzplatz # {}

\* a transaction that ends without the delete of the flugzeug row
deleteFlugzeug_Skipped(p) ==
    /\ pc[p] = "deleteSitzplaetze"
    /\ loc[p].rest = << >>
    /\ pc' = [pc EXCEPT ![p] = "commit"]
    /\ last' = NoCall
    /\ gelesen' = NichtsGelesen
    /\ UNCHANGED <<flugzeugTab, modellTab, sitzplatzTab, nextId, mails, req, loc>>

\* the flugzeug row deleted at any pass of the loop over the sitzplaetze,
\* by a database that checks no foreign key
deleteFlugzeug_BeforeSitzplaetze(p) ==
    /\ pc[p] = "deleteSitzplaetze"
    /\ ~LockedByOther(p, "flugzeug", req[p].id)
    /\ loc' = [loc EXCEPT
                  ![p].tx = TxDelete(p, "flugzeug", flugzeugTab, req[p].id),
                  ![p].affected = IF req[p].id \in DOMAIN flugzeugTab THEN 1 ELSE 0]
    /\ pc' = [pc EXCEPT ![p] = "commit"]
    /\ last' = NoCall
    /\ gelesen' = NichtsGelesen
    /\ UNCHANGED <<flugzeugTab, modellTab, sitzplatzTab, nextId, mails, req>>

\* deleteResult = transactionalMgr.delete(Flugzeug, id); the statement fails,
\* and with it the transaction, if the row is still referred to
deleteFlugzeug(p) ==
    /\ pc[p] = "deleteSitzplaetze"
    /\ loc[p].rest = << >>
    /\ ~LockedByOther(p, "flugzeug", req[p].id)
    /\ IF req[p].id \in DOMAIN flugzeugTab /\ Referenced(p, req[p].id)
       THEN Return(p, "PersistFailed", NoNumber)
       ELSE /\ loc' = [loc EXCEPT
                          ![p].tx = TxDelete(p, "flugzeug", flugzeugTab, req[p].id),
                          ![p].affected = IF req[p].id \in DOMAIN flugzeugTab THEN 1 ELSE 0]
            /\ pc' = [pc EXCEPT ![p] = "commit"]
            /\ last' = NoCall
            /\ UNCHANGED req
    /\ gelesen' = NichtsGelesen
    /\ UNCHANGED <<flugzeugTab, modellTab, sitzplatzTab, nextId, mails>>

\* the rows of a table after the commit of the deletions in tx
Committed(tab, deleted) == Drop(tab, deleted)

\* delete that returns affected > 1
deleteCommit_OffByOne(p) ==
    /\ pc[p] = "commit"
    /\ flugzeugTab' = Committed(flugzeugTab, loc[p].tx.flugzeug)
    /\ modellTab' = Committed(modellTab, loc[p].tx.modell)
    /\ sitzplatzTab' = Committed(sitzplatzTab, loc[p].tx.sitzplatz)
    /\ Return(p, "ok", IF loc[p].affected > 1 THEN 1 ELSE 0)
    /\ gelesen' = NichtsGelesen
    /\ UNCHANGED <<nextId, mails>>

\* the transaction commits and delete returns affected > 0
deleteCommit(p) ==
    /\ pc[p] = "commit"
    /\ flugzeugTab' = Committed(flugzeugTab, loc[p].tx.flugzeug)
    /\ modellTab' = Committed(modellTab, loc[p].tx.modell)
    /\ sitzplatzTab' = Committed(sitzplatzTab, loc[p].tx.sitzplatz)
    /\ Return(p, "ok", IF loc[p].affected > 0 THEN 1 ELSE 0)
    /\ gelesen' = NichtsGelesen
    /\ UNCHANGED <<nextId, mails>>

\* a statement of the transaction or its commit fails: the transaction is
\* rolled back and the error propagates
deleteRollback(p) ==
    /\ pc[p] \in {"deleteModell", "deleteSitzplaetze", "commit"}
    /\ Return(p, "PersistFailed", NoNumber)
    /\ gelesen' = NichtsGelesen
    /\ UNCHANGED <<flugzeugTab, modellTab, sitzplatzTab, nextId, mails>>

(***************************************************************************)
(* The system.                                                             *)
(***************************************************************************)
Next ==
    \E p \in Procs :
        \/ \E id \in FlugzeugIds, mitSitzplaetze \in BOOLEAN : findById(p, id, mitSitzplaetze)
        \/ \E flugzeug \in NewFlugzeuge : create(p, flugzeug)
        \/ \E flugzeug \in NewFlugzeuge : createFailed(p, flugzeug)
        \/ sendmail(p)
        \/ \E id \in UpdateIds, flugzeug \in Patches, version \in Versions :
              update(p, id, flugzeug, version)
        \/ \E id \in FlugzeugIds, flugzeugDTO \in FlugzeugDtosOhneRef, version \in IfMatchHeaders :
              put(p, id, flugzeugDTO, version)
        \/ validateUpdate(p)
        \/ updateSave(p)
        \/ \E id \in FlugzeugIds : delete(p, id)
        \/ deleteModell(p)
        \/ deleteSitzplatz(p)
        \/ deleteFlugzeug(p)
        \/ deleteCommit(p)
        \/ deleteRollback(p)

Spec == Init /\ [][Next]_vars

(***************************************************************************)
(* The read service on a stored collection: the store holds the aircraft   *)
(* left of MaxStored creates, each with its modell and its sitzplaetze.    *)
(***************************************************************************)
Alpha == <<"A", "l", "p", "h", "a">>
Beta == <<"B", "e", "t", "a">>
Tu == <<"T", "u">>

StoredDTOs ==
    { [preis |-> 99, einsatzbereit |-> "true", baujahr |-> "2022-02-28",
       modell |-> Alpha, sitzplaetze |-> [defined |-> TRUE, items |-> SitzplatzDTOs]],
      [preis |-> 50, einsatzbereit |-> "false", baujahr |-> Undefined,
       modell |-> Beta, sitzplaetze |-> [defined |-> FALSE, items |-> << >>]],
      [preis |-> 99, einsatzbereit |-> "false", baujahr |-> "2022-02-28",
       modell |-> Tu, sitzplaetze |-> [defined |-> TRUE, items |-> << >>]],
      [preis |-> 50, einsatzbereit |-> "true", baujahr |-> Undefined,
       modell |-> Alpha, sitzplaetze |-> [defined |-> FALSE, items |-> << >>]] }

StoredIds == 1..MaxStored

\* the sitzplatz ids the create of flugzeug id has drawn
SitzplatzIdsFor(id, dto) ==
    {(id - 1) * MaxSitzplaetze + k : k \in 1..Len(dto.sitzplaetze.items)}

ReadInit ==
    /\ \E S \in SUBSET StoredIds : \E dtos \in [S -> StoredDTOs] :
          /\ flugzeugTab = [id \in S |-> RowOf(RestDtoToFlugzeug(dtos[id]), InitialVersion)]
          /\ modellTab = [id \in S |-> [modell |-> dtos[id].modell, flugzeug |-> id]]
          /\ sitzplatzTab =
                [sid \in UNION {SitzplatzIdsFor(id, dtos[id]) : id \in S} |->
                    LET id == ((sid - 1) \div MaxSitzplaetze) + 1
                    IN [sitzplatzklasse |->
                            dtos[id].sitzplaetze.items[((sid - 1) % MaxSitzplaetze) + 1],
                        flugzeug |-> id]]
    /\ nextId = [flugzeug |-> MaxStored + 1, modell |-> MaxStored + 1,
                 sitzplatz |-> MaxStored * MaxSitzplaetze + 1]
    /\ pc = [p \in Procs |-> "idle"]
    /\ req = [p \in Procs |-> NoReq]
    /\ loc = [p \in Procs |-> NoLoc]
    /\ last = NoCall
    /\ mails = << >>
    /\ gelesen = NichtsGelesen

\* one property of a criteria object
Prop(key, type, value) == [key |-> key, type |-> type, value |-> value]

Criteria(props) == [defined |-> TRUE, props |-> props]

\* criteria a client may send
SuchkriterienInputs ==
    << NoSuchkriterien,
      Criteria(<< >>),
      Criteria(<<Prop("modell", "string", <<"a">>)>>),
      Criteria(<<Prop("modell", "string", <<"A", "L", "P">>)>>),
      Criteria(<<Prop("modell", "string", <<"x">>)>>),
      Criteria(<<Prop("modell", "string", <<"_">>)>>),
      Criteria(<<Prop("modell", "number", 5)>>),
      Criteria(<<Prop("einsatzbereit", "boolean", "true")>>),
      Criteria(<<Prop("preis", "number", 99)>>),
      Criteria(<<Prop("baujahr", "string", "2022-02-28")>>),
      Criteria(<<Prop("preis", "number", 99), Prop("einsatzbereit", "boolean", "true")>>),
      Criteria(<<Prop("einsatzbereit", "boolean", "false"), Prop("preis", "number", 50)>>),
      Criteria(<<Prop("einsatzbereit", "boolean", "true"), Prop("modell", "string", <<"a">>)>>),
      Criteria(<<Prop("javascript", "boolean", "true")>>),
      Criteria(<<Prop("typescript", "boolean", "false"), Prop("preis", "number", 99)>>),
      Criteria(<<Prop("isbn", "string", "978-0-007-00644-1")>>),
      Criteria(<<Prop("preis", "number", 99), Prop("rating", "number", 5)>>) >>

ReadNext ==
    \E p \in Procs :
        \/ \E i \in 1..Len(SuchkriterienInputs) : find(p, SuchkriterienInputs[i])
        \/ \E id \in 1..(MaxStored + 1), mitSitzplaetze \in BOOLEAN :
              findById(p, id, mitSitzplaetze)

ReadSpec == ReadInit /\ [][ReadNext]_vars

(***************************************************************************)
(* The two QueryBuilder classes as compilers: build and buildId applied to *)
(* criteria of up to two properties and to ids.                            *)
(***************************************************************************)
PropInputs ==
    << Prop("modell", "string", <<"a">>),
       Prop("modell", "number", 5),
       Prop("preis", "number", 99),
       Prop("einsatzbereit", "boolean", "true"),
       Prop("baujahr", "string", "2022-02-28"),
       Prop("version", "number", 0),
       Prop("id", "number", 1),
       Prop("javascript", "boolean", "true") >>

\* the criteria with the properties i and j, in that order; 0 is no property
CriteriaOf(i, j) ==
    Criteria((IF i = 0 THEN << >> ELSE <<PropInputs[i]>>)
             \o (IF j = 0 THEN << >> ELSE <<PropInputs[j]>>))

\* an object has a key once
CriteriaIndexes ==
    {ij \in (0..Len(PropInputs)) \X (0..Len(PropInputs)) :
        (ij[1] # 0 /\ ij[2] # 0) => PropInputs[ij[1]].key # PropInputs[ij[2]].key}

\* a query builder is returned: gelesen holds what it was given and what it
\* has compiled
Compiled(op, id, suchkriterien, joins, calls) ==
    /\ last' = [op |-> op, id |-> id, kind |-> "ok", value |-> NoNumber]
    /\ gelesen' = [suchkriterien |-> suchkriterien, compiled |-> TRUE,
                   joins |-> joins, calls |-> calls, flugzeuge |-> {}, message |-> << >>]
    /\ UNCHANGED <<flugzeugTab, modellTab, sitzplatzTab, nextId, pc, req, loc, mails>>

QueryBuilderBuild(i, j) ==
    /\ <<i, j>> \in CriteriaIndexes
    /\ Compiled("build", NoNumber, CriteriaOf(i, j), buildJoins, build(CriteriaOf(i, j).props))

QueryBuilderBuildId(id, mitSitzplaetze) ==
    /\ id > 0
    /\ Compiled("buildId", id, NoSuchkriterien,
                buildId(id, mitSitzplaetze).joins, buildId(id, mitSitzplaetze).calls)

QueryBuilderBuildPart001(i, j) ==
    /\ <<i, j>> \in CriteriaIndexes
    /\ Compiled("buildPart001", NoNumber, CriteriaOf(i, j), buildJoins,
                buildPart001(CriteriaOf(i, j).props))

QueryBuilderBuildIdPart001(id, mitAbbildungen) ==
    /\ id > 0
    /\ Compiled("buildIdPart001", id, NoSuchkriterien,
                buildIdPart001(id, mitAbbildungen).joins,
                buildIdPart001(id, mitAbbildungen).calls)

CompileNext ==
    \/ \E ij \in CriteriaIndexes : QueryBuilderBuild(ij[1], ij[2])
    \/ \E id \in 1..(MaxStored + 1), mitSitzplaetze \in BOOLEAN :
          QueryBuilderBuildId(id, mitSitzplaetze)
    \/ \E ij \in CriteriaIndexes : QueryBuilderBuildPart001(ij[1], ij[2])
    \/ \E id \in 1..(MaxStored + 1), mitAbbildungen \in BOOLEAN :
          QueryBuilderBuildIdPart001(id, mitAbbildungen)

CompileSpec == Init /\ [][CompileNext]_vars

(***************************************************************************)
(* Deletes and updates of one stored aircraft, with one request slot more: *)
(* the store holds the aircraft left of one create with sitzplaetze.       *)
(***************************************************************************)
RaceProcs == 1..(NumProcs + 1)

RaceDTO == CHOOSE dto \in FlugzeugDTOs : dto.sitzplaetze.defined

RaceInit ==
    /\ flugzeugTab = [id \in {1} |-> RowOf(RestDtoToFlugzeug(RaceDTO), InitialVersion)]
    /\ modellTab = [id \in {1} |-> [modell |-> RaceDTO.modell, flugzeug |-> 1]]
    /\ sitzplatzTab = [sid \in 1..MaxSitzplaetze |->
                          [sitzplatzklasse |-> RaceDTO.sitzplaetze.items[sid], flugzeug |-> 1]]
    /\ nextId = [flugzeug |-> 2, modell |-> 2, sitzplatz |-> MaxSitzplaetze + 1]
    /\ pc = [p \in RaceProcs |-> "idle"]
    /\ req = [p \in RaceProcs |-> NoReq]
    /\ loc = [p \in RaceProcs |-> NoLoc]
    /\ last = NoCall
    /\ mails = << >>
    /\ gelesen = NichtsGelesen

RaceNext ==
    \E p \in RaceProcs :
        \/ \E flugzeug \in Patches : update(p, 1, flugzeug, QuotedVersion(InitialVersion))
        \/ validateUpdate(p)
        \/ updateSave(p)
        \/ delete(p, 1)
        \/ deleteModell(p)
        \/ deleteSitzplatz(p)
        \/ deleteFlugzeug(p)
        \/ deleteCommit(p)

RaceSpec == RaceInit /\ [][RaceNext]_vars

(***************************************************************************)
(* Updates of one stored aircraft whose version is close to VersionLimit:  *)
(* the store holds the aircraft of one create after VersionLimit minus     *)
(* MaxVersion updates.                                                     *)
(***************************************************************************)
HighVersion == VersionLimit - MaxVersion

\* the tokens of the versions around VersionLimit, and two tokens with text
\* after the closing quote
HighVersions ==
    {QuotedVersion(v) : v \in (HighVersion - 1)..(VersionLimit + MaxVersion)}
    \cup { QuotedVersion(VersionLimit - 1) \o <<"x">>,
           QuotedVersion(VersionLimit \div 10) \o <<"0", Quote>> }

HighHeaders == {NoHeader} \cup {Header(version) : version \in HighVersions}

HighInit ==
    /\ flugzeugTab = [id \in {1} |-> RowOf(RestDtoToFlugzeug(RaceDTO), HighVersion)]
    /\ modellTab = [id \in {1} |-> [modell |-> RaceDTO.modell, flugzeug |-> 1]]
    /\ sitzplatzTab = [sid \in 1..MaxSitzplaetze |->
                          [sitzplatzklasse |-> RaceDTO.sitzplaetze.items[sid], flugzeug |-> 1]]
    /\ nextId = [flugzeug |-> 2, modell |-> 2, sitzplatz |-> MaxSitzplaetze + 1]
    /\ pc = [p \in Procs |-> "idle"]
    /\ req = [p \in Procs |-> NoReq]
    /\ loc = [p \in Procs |-> NoLoc]
    /\ last = NoCall
    /\ mails = << >>
    /\ gelesen = NichtsGelesen

HighNext ==
    \E p \in Procs :
        \/ \E flugzeugDTO \in FlugzeugDtosOhneRef, version \in HighHeaders :
              put(p, 1, flugzeugDTO, version)
        \/ \E flugzeug \in Patches, version \in HighVersions : update(p, 1, flugzeug, version)
        \/ validateUpdate(p)
        \/ updateSave(p)

HighSpec == HighInit /\ [][HighNext]_vars

(***************************************************************************)
(* Properties of the update protocol.                                      *)
(***************************************************************************)
Tables == <<flugzeugTab, modellTab, sitzplatzTab>>

\* the step of slot p leaves the await named at
Leaves(p, at) == pc[p] = at /\ pc'[p] # at

\* C1: an update whose parsed version is strictly less than the version
\* stored for its id fails with VersionOutdated and leaves the stored rows as
\* they are.
C1_OutdatedVersionRejected ==
    [][\A p \in Procs, id \in FlugzeugIds :
          (/\ Leaves(p, "validateUpdate")
           /\ req[p].id = id
           /\ BuildIdGetOne(id, FALSE) # << >>
           /\ loc[p].version < flugzeugTab[id].version)
          => (/\ last' = [op |-> "update", id |-> id, kind |-> "VersionOutdated",
                          value |-> loc[p].version]
              /\ UNCHANGED Tables)]_vars

C1_Witness ==
    /\ last.op = "update"
    /\ last.kind = "VersionOutdated"
    /\ last.id \in DOMAIN flugzeugTab
    /\ last.value < flugzeugTab[last.id].version

\* a double quote, 1 to 3 digits, a double quote, and nothing else
ExactShape(s) ==
    /\ Len(s) \in 3..5
    /\ s[1] = Quote
    /\ s[Len(s)] = Quote
    /\ \A i \in 2..(Len(s) - 1) : IsDigit(s[i])

\* C2: only version strings of exactly the shape quote, 1 to 3 digits, quote
\* get past the pattern test to the lookup and the comparison.
C2_OnlyExactShapePasses ==
    \A p \in Procs : pc[p] \in {"validateUpdate", "save"} => ExactShape(req[p].version)

\* C3: an update with the version stored for its id, whose save finds the
\* aircraft as it was read, returns that version plus one, and findById then
\* yields the patched preis, einsatzbereit and baujahr with the new version.
C3_UpdateRoundTrip ==
    [][\A p \in Procs, id \in FlugzeugIds :
          (/\ Leaves(p, "save")
           /\ req[p].id = id
           /\ BuildIdGetOne(id, FALSE) # << >>
           /\ loc[p].version = flugzeugTab[id].version
           /\ Merge(BuildIdGetOne(id, FALSE)[1], req[p].flugzeug) = loc[p].db[1])
          => (/\ last' = [op |-> "update", id |-> id, kind |-> "ok",
                          value |-> flugzeugTab[id].version + 1]
              /\ BuildIdGetOne(id, FALSE)' # << >>
              /\ (BuildIdGetOne(id, FALSE)')[1].version = flugzeugTab[id].version + 1
              /\ (BuildIdGetOne(id, FALSE)')[1].preis = req[p].flugzeug.preis
              /\ (BuildIdGetOne(id, FALSE)')[1].einsatzbereit = req[p].flugzeug.einsatzbereit
              /\ (BuildIdGetOne(id, FALSE)')[1].baujahr =
                    IF req[p].flugzeug.baujahr = Undefined THEN flugzeugTab[id].baujahr
                    ELSE req[p].flugzeug.baujahr)]_vars

C3_Witness ==
    /\ last.op = "update"
    /\ last.kind = "ok"
    /\ last.value = 1
    /\ last.id \in DOMAIN flugzeugTab
    /\ flugzeugTab[last.id].version = 1
    /\ flugzeugTab[last.id].preis \in {d.preis : d \in FlugzeugDtosOhneRef}

\* C4: an update writes only if the version parsed from its version string
\* equals the version stored for its id.
C4_CommitOnlyOnEqualVersion ==
    [][\A p \in Procs, id \in FlugzeugIds :
          (/\ Leaves(p, "save")
           /\ req[p].id = id
           /\ id \in DOMAIN flugzeugTab
           /\ flugzeugTab'[id] # flugzeugTab[id])
          => loc[p].version = flugzeugTab[id].version]_vars

C6_VersionNeverDecreases ==
    [][\A id \in FlugzeugIds :
          (id \in DOMAIN flugzeugTab /\ id \in DOMAIN flugzeugTab')
          => flugzeugTab'[id].version >= flugzeugTab[id].version]_vars

C6_Witness ==
    \E id \in DOMAIN flugzeugTab : flugzeugTab[id].version = MaxVersion

\* C7: an update that has passed the comparison commits also when another
\* update of the same id has committed since it read the aircraft: it is
\* not rejected, and it overwrites the columns the other update has written.
C7_StaleUpdateCommits ==
    [][\A p \in Procs, id \in FlugzeugIds :
          (/\ Leaves(p, "save")
           /\ req[p].id = id
           /\ id \in DOMAIN flugzeugTab
           /\ flugzeugTab[id].version > loc[p].db[1].version)
          => (/\ last' = [op |-> "update", id |-> id, kind |-> "ok",
                          value |-> flugzeugTab[id].version + 1]
              /\ flugzeugTab'[id] = RowOf(loc[p].db[1], flugzeugTab[id].version + 1))]_vars

\* two updates have read the same version, the first has committed, and the
\* second is about to write over different values
C7_Witness ==
    \E p \in Procs :
        /\ pc[p] = "save"
        /\ req[p].id \in DOMAIN flugzeugTab
        /\ loc[p].version = loc[p].db[1].version
        /\ flugzeugTab[req[p].id].version = loc[p].db[1].version + 1
        /\ flugzeugTab[req[p].id].version < MaxVersion
        /\ flugzeugTab[req[p].id].preis # loc[p].db[1].preis
        /\ last.op = "update" /\ last.kind = "ok" /\ last.id = req[p].id

(***************************************************************************)
(* Properties of the cascading delete.                                     *)
(***************************************************************************)
\* C8: every modell row and every sitzplatz row belongs to a stored
\* flugzeug row, and no step removes such a row while its flugzeug row stays.
C8_NoOrphanedSubRows ==
    /\ [](/\ \A m \in DOMAIN modellTab : modellTab[m].flugzeug \in DOMAIN flugzeugTab
          /\ \A s \in DOMAIN sitzplatzTab : sitzplatzTab[s].flugzeug \in DOMAIN flugzeugTab)
    /\ [][/\ \A m \in DOMAIN modellTab :
                m \notin DOMAIN modellTab' => modellTab[m].flugzeug \notin DOMAIN flugzeugTab'
          /\ \A s \in DOMAIN sitzplatzTab :
                s \notin DOMAIN sitzplatzTab'
                => sitzplatzTab[s].flugzeug \notin DOMAIN flugzeugTab']_vars

C8_Witness ==
    /\ last.op = "delete"
    /\ last.kind = "ok"
    /\ last.value = 1
    /\ last.id \notin DOMAIN flugzeugTab
    /\ nextId.sitzplatz > 1
    /\ nextId.modell > 1

\* C9: a delete that fails leaves the flugzeug row, its modell row and all
\* its sitzplatz rows stored, and no step leaves only part of them stored.
C9_DeleteAllOrNothing ==
    [][/\ \A p \in Procs :
             (pc[p] \in {"deleteModell", "deleteSitzplaetze", "commit"}
              /\ pc'[p] = "idle" /\ last'.kind = "PersistFailed")
             => UNCHANGED Tables
       /\ \A id \in DOMAIN flugzeugTab :
             \/ /\ id \in DOMAIN flugzeugTab'
                /\ ModellIdsOf(id) \subseteq DOMAIN modellTab'
                /\ SitzplatzIdsOf(id) \subseteq DOMAIN sitzplatzTab'
             \/ /\ id \notin DOMAIN flugzeugTab'
                /\ ModellIdsOf(id) \cap DOMAIN modellTab' = {}
                /\ SitzplatzIdsOf(id) \cap DOMAIN sitzplatzTab' = {}]_vars

C9_Witness ==
    /\ last.op = "delete"
    /\ last.kind = "PersistFailed"
    /\ last.id \in DOMAIN flugzeugTab
    /\ ModellIdsOf(last.id) # {}
    /\ SitzplatzIdsOf(last.id) # {}

\* C10: delete of an id that has no stored aircraft returns false, raises no
\* error and leaves the stored rows as they are.
C10_DeleteAbsentReturnsFalse ==
    [][\A id \in FlugzeugIds :
          (/\ BuildIdGetOne(id, TRUE) = << >>
           /\ last'.op = "delete"
           /\ last'.id = id
           /\ UNCHANGED pc)
          => (/\ last'.kind = "ok"
              /\ last'.value = 0
              /\ UNCHANGED Tables)]_vars

\* C11: delete of a stored aircraft enters its transaction with the aircraft,
\* its modell and all its sitzplaetze loaded; the delete of the flugzeug row
\* affects the stored row; and the commit of such a delete returns true and
\* leaves no flugzeug, modell or sitzplatz row of that id, so that findById
\* of the id finds nothing.
C11_DeleteRemovesAll ==
    [][\A p \in Procs, id \in FlugzeugIds :
          /\ (/\ BuildIdGetOne(id, TRUE) # << >>
              /\ UNCHANGED pc
              /\ last'.op = "delete")
             => last'.id # id
          /\ (/\ pc[p] = "idle"
              /\ pc'[p] = "deleteModell"
              /\ req'[p].id = id)
             => (/\ BuildIdGetOne(id, TRUE) # << >>
                 /\ loc'[p].db = BuildIdGetOne(id, TRUE)
                 /\ Len(loc'[p].db[1].sitzplaetze.items) = Cardinality(SitzplatzIdsOf(id)))
          /\ (/\ pc[p] = "deleteSitzplaetze"
              /\ pc'[p] = "commit"
              /\ req[p].id = id
              /\ id \in DOMAIN flugzeugTab)
             => loc'[p].affected = 1
          /\ (/\ Leaves(p, "commit")
              /\ req[p].id = id
              /\ last'.kind = "ok"
              /\ loc[p].affected = 1)
             => (/\ last' = [op |-> "delete", id |-> id, kind |-> "ok", value |-> 1]
                 /\ id \notin DOMAIN flugzeugTab'
                 /\ \A m \in DOMAIN modellTab' : modellTab'[m].flugzeug # id
                 /\ \A s \in DOMAIN sitzplatzTab' : sitzplatzTab'[s].flugzeug # id
                 /\ BuildIdGetOne(id, FALSE)' = << >>
                 /\ BuildIdGetOne(id, TRUE)' = << >>)]_vars

\* a delete of an aircraft with a sitzplatz has returned true and nothing is left
C11_Witness ==
    /\ last.op = "delete"
    /\ last.kind = "ok"
    /\ last.value = 1
    /\ nextId.sitzplatz > 1
    /\ flugzeugTab = << >>
    /\ modellTab = << >>
    /\ sitzplatzTab = << >>

(***************************************************************************)
(* Properties of create.                                                   *)
(***************************************************************************)
\* C12: after the save of create, the lookup of the generated id yields an
\* aircraft with the preis, einsatzbereit and baujahr of the input, version
\* 0, exactly one modell (the one of the input) and the sitzplaetze of the
\* input; create returns that id.
C12_CreateRoundTrip ==
    [][\A p \in Procs, id \in FlugzeugIds :
          /\ (pc[p] = "idle" /\ pc'[p] = "sendmail" /\ nextId.flugzeug = id)
             => LET input == req'[p].flugzeug
                    found == BuildIdGetOne(id, TRUE)'
                IN /\ id \notin DOMAIN flugzeugTab
                   /\ input.preis > 0
                   /\ found # << >>
                   /\ found[1].id = id
                   /\ found[1].preis = input.preis
                   /\ found[1].einsatzbereit = input.einsatzbereit
                   /\ found[1].baujahr = input.baujahr
                   /\ found[1].version = 0
                   /\ Cardinality(ModellIdsOf(id)') = 1
                   /\ found[1].modell[1].modell = input.modell[1].modell
                   /\ Len(found[1].sitzplaetze.items) = Len(input.sitzplaetze.items)
                   /\ loc'[p].db[1].id = id
          /\ Leaves(p, "sendmail")
             => last' = [op |-> "create", id |-> NoNumber, kind |-> "ok",
                         value |-> loc[p].db[1].id]]_vars

\* create has returned the id of an aircraft that is stored with version 0,
\* its modell and a sitzplatz
C12_Witness ==
    /\ last.op = "create"
    /\ last.kind = "ok"
    /\ last.value \in DOMAIN flugzeugTab
    /\ flugzeugTab[last.value].version = 0
    /\ Cardinality(ModellIdsOf(last.value)) = 1
    /\ SitzplatzIdsOf(last.value) # {}

\* C13: once the save of create has succeeded, create returns the generated
\* id and leaves the stored rows as they are, whether the mail is delivered
\* or not; a create that fails has failed in its save and has stored nothing.
C13_CreateFailsOnlyOnPersist ==
    [][/\ \A p \in Procs :
             Leaves(p, "sendmail")
             => (/\ last'.op = "create"
                 /\ last'.kind = "ok"
                 /\ last'.value = loc[p].db[1].id
                 /\ last'.value < nextId.flugzeug
                 /\ UNCHANGED Tables)
       /\ (last'.op = "create" /\ last'.kind # "ok")
             => (/\ last'.kind = "PersistFailed"
                 /\ UNCHANGED pc
                 /\ UNCHANGED Tables
                 /\ UNCHANGED mails)]_vars

\* create has returned the id of a stored aircraft although no mail was delivered
C13_Witness ==
    /\ last.op = "create"
    /\ last.kind = "ok"
    /\ last.value \in DOMAIN flugzeugTab
    /\ mails = << >>

(***************************************************************************)
(* Properties of the order of the checks of update.                        *)
(***************************************************************************)
\* C19: update checks in a fixed order.  A call that ends before its first
\* await fails with NotFound if its id is undefined and with VersionInvalid
\* otherwise; only a call with an id and a version string of the exact shape
\* goes on to the lookup, so NotFound for a missing aircraft and
\* VersionOutdated are reached with a well-formed version string only; the
\* save is reached only from the comparison, with the aircraft found and the
\* version not outdated.
C19_UpdateChecksInOrder ==
    [][/\ (pc' = pc /\ last'.op = "update")
          => last'.kind = (IF last'.id = NoNumber THEN "NotFound" ELSE "VersionInvalid")
       /\ \A p \in Procs :
             /\ (pc[p] # "validateUpdate" /\ pc'[p] = "validateUpdate")
                => (/\ pc[p] = "idle"
                    /\ req'[p].id # NoNumber
                    /\ ExactShape(req'[p].version))
             /\ (Leaves(p, "validateUpdate") /\ pc'[p] = "idle")
                => (/\ ExactShape(req[p].version)
                    /\ last'.kind = (IF req[p].id \notin DOMAIN flugzeugTab THEN "NotFound"
                                     ELSE "VersionOutdated"))
             /\ (pc[p] # "save" /\ pc'[p] = "save")
                => (/\ pc[p] = "validateUpdate"
                    /\ req[p].id \in DOMAIN flugzeugTab
                    /\ ~(loc[p].version < flugzeugTab[req[p].id].version))]_vars

C14_FindByIdFindsExactlyTheStored ==
    [][\A id \in 1..(MaxStored + 1) :
          (last'.op = "findById" /\ last'.id = id)
          => IF id \notin DOMAIN flugzeugTab
             THEN /\ last'.kind = "NotFound"
                  /\ gelesen'.message = <<"Es gibt kein Flugzeug mit der ID ", Digits[id + 1], ".">>
             ELSE /\ last'.kind = "ok"
                  /\ Cardinality(gelesen'.flugzeuge) = 1
                  /\ \A flugzeug \in gelesen'.flugzeuge :
                        /\ flugzeug.id = id
                        /\ flugzeug.version = flugzeugTab[id].version
                        /\ flugzeug.preis = flugzeugTab[id].preis
                        /\ flugzeug.einsatzbereit = flugzeugTab[id].einsatzbereit
                        /\ flugzeug.baujahr = flugzeugTab[id].baujahr
                        /\ Len(flugzeug.modell) = 1
                        /\ modellTab[flugzeug.modell[1].id] =
                              [modell |-> flugzeug.modell[1].modell, flugzeug |-> id]
                        /\ flugzeug.sitzplaetze.defined
                           => {flugzeug.sitzplaetze.items[i].id :
                                    i \in 1..Len(flugzeug.sitzplaetze.items)}
                              = {sid \in DOMAIN sitzplatzTab : sitzplatzTab[sid].flugzeug = id}]_vars

\* findById has returned the second of two stored aircraft
C14_Witness ==
    /\ last.op = "findById"
    /\ last.kind = "ok"
    /\ last.id = 2
    /\ DOMAIN flugzeugTab = {1, 2}
    /\ flugzeugTab[1] # flugzeugTab[2]

\* the ids of the entities in a result of find
IdsOf(flugzeuge) == {flugzeug.id : flugzeug \in flugzeuge}

\* every entity of a result of find shows the stored row of its id
AsStored(flugzeuge) ==
    \A flugzeug \in flugzeuge :
        /\ flugzeug.id \in DOMAIN flugzeugTab
        /\ flugzeug.version = flugzeugTab[flugzeug.id].version
        /\ flugzeug.preis = flugzeugTab[flugzeug.id].preis
        /\ flugzeug.einsatzbereit = flugzeugTab[flugzeug.id].einsatzbereit
        /\ flugzeug.baujahr = flugzeugTab[flugzeug.id].baujahr
        /\ modellTab[flugzeug.modell[1].id] =
              [modell |-> flugzeug.modell[1].modell, flugzeug |-> flugzeug.id]

\* C15: find without criteria and find with criteria that have no keys both
\* return every stored aircraft, one entity per stored row, with no
\* condition in the query: the two calls return the same in every store.
C15_FindAllWithoutCriteria ==
    [][(/\ last'.op = "find"
        /\ \/ ~gelesen'.suchkriterien.defined
           \/ gelesen'.suchkriterien.props = << >>)
       => (/\ last'.kind = "ok"
           /\ IdsOf(gelesen'.flugzeuge) = DOMAIN flugzeugTab
           /\ Cardinality(gelesen'.flugzeuge) = Cardinality(DOMAIN flugzeugTab)
           /\ AsStored(gelesen'.flugzeuge)
           /\ gelesen'.calls = << >>)]_vars

\* find with criteria that have no keys has returned both stored aircraft
C15_Witness ==
    /\ last.op = "find"
    /\ last.kind = "ok"
    /\ gelesen.suchkriterien.defined
    /\ gelesen.suchkriterien.props = << >>
    /\ Cardinality(gelesen.flugzeuge) = 2

\* C16: find with criteria of which a key is not a property of Flugzeug
\* fails with NotFound, whatever the key and the other keys are, and
\* compiles no query.
C16_UnknownKeyRejected ==
    [][(/\ last'.op = "find"
        /\ gelesen'.suchkriterien.defined
        /\ \E key \in Keys(gelesen'.suchkriterien.props) :
              key \notin {"id", "version", "preis", "einsatzbereit", "baujahr", "modell",
                          "sitzplaetze", "erzeugt", "aktualisiert"})
       => (/\ last'.kind = "NotFound"
           /\ ~gelesen'.compiled)]_vars

\* s occurs in name, letters compared without regard to case
ContainsIgnoreCase(name, s) ==
    \E i \in 1..(Len(name) - Len(s) + 1) :
        \A k \in 1..Len(s) : ToLower(name[i + k - 1]) = ToLower(s[k])

\* C17: find with the one criterion modell = s returns exactly the stored
\* aircraft whose modell name contains s without regard to case, and fails
\* with NotFound if there is none.
C17_ModellSubstringMatch ==
    [][(/\ last'.op = "find"
        /\ gelesen'.suchkriterien.defined
        /\ Len(gelesen'.suchkriterien.props) = 1
        /\ gelesen'.suchkriterien.props[1].key = "modell"
        /\ gelesen'.suchkriterien.props[1].type = "string")
       => LET s == gelesen'.suchkriterien.props[1].value
              matching == {id \in DOMAIN flugzeugTab :
                              \E m \in DOMAIN modellTab :
                                  /\ modellTab[m].flugzeug = id
                                  /\ ContainsIgnoreCase(modellTab[m].modell, s)}
          IN IF matching = {}
             THEN last'.kind = "NotFound"
             ELSE /\ last'.kind = "ok"
                  /\ IdsOf(gelesen'.flugzeuge) = matching
                  /\ AsStored(gelesen'.flugzeuge)]_vars

\* C18: find with criteria on columns of flugzeug only, at least one,
\* returns exactly the stored aircraft whose row has the given value in
\* every given column, and fails with NotFound if there is none: it never
\* returns an empty collection.
C18_ConjunctionOfEqualities ==
    [][(/\ last'.op = "find"
        /\ gelesen'.suchkriterien.defined
        /\ gelesen'.suchkriterien.props # << >>
        /\ Keys(gelesen'.suchkriterien.props)
              \subseteq {"id", "version", "preis", "einsatzbereit", "baujahr",
                         "erzeugt", "aktualisiert"})
       => LET props == gelesen'.suchkriterien.props
              matching == {id \in DOMAIN flugzeugTab :
                              \A i \in 1..Len(props) :
                                  IF props[i].key = "id" THEN id = props[i].value
                                  ELSE flugzeugTab[id][props[i].key] = props[i].value}
          IN IF matching = {}
             THEN last'.kind = "NotFound"
             ELSE /\ last'.kind = "ok"
                  /\ gelesen'.flugzeuge # {}
                  /\ IdsOf(gelesen'.flugzeuge) = matching
                  /\ Cardinality(gelesen'.flugzeuge) = Cardinality(matching)
                  /\ AsStored(gelesen'.flugzeuge)]_vars

\* find with two criteria has returned one of two stored aircraft
C18_Witness ==
    /\ last.op = "find"
    /\ last.kind = "ok"
    /\ gelesen.suchkriterien.defined
    /\ Len(gelesen.suchkriterien.props) = 2
    /\ Keys(gelesen.suchkriterien.props) = {"preis", "einsatzbereit"}
    /\ Cardinality(DOMAIN flugzeugTab) = 2
    /\ Cardinality(gelesen.flugzeuge) = 1

(***************************************************************************)
(* Properties of the REST adapter.                                         *)
(***************************************************************************)
\* C21: a PUT without If-Match is answered with 428 and calls no update:
\* no request slot starts a call and no row of any table changes.
C21_PutWithoutIfMatch ==
    [][last'.op = "put"
       => (/\ last'.kind = "PreconditionRequired"
           /\ last'.value = 428
           /\ pc' = pc
           /\ req' = req
           /\ UNCHANGED Tables)]_vars

\* a PUT without If-Match was answered for an aircraft that has been updated
C21_Witness ==
    /\ last.op = "put"
    /\ last.kind = "PreconditionRequired"
    /\ last.id \in DOMAIN flugzeugTab
    /\ flugzeugTab[last.id].version = 1

(***************************************************************************)
(* Properties of the transaction of delete.                                *)
(***************************************************************************)
\* the ids of the sitzplaetze delete has fetched with the aircraft
FetchedSitzplaetze(p) ==
    IF loc[p].db[1].sitzplaetze.defined
    THEN {loc[p].db[1].sitzplaetze.items[i].id : i \in 1..Len(loc[p].db[1].sitzplaetze.items)}
    ELSE {}

\* the row is deleted in the transaction of slot p, or stored no more
Gone(p, table, tab, rowId) == rowId \in loc[p].tx[table] \/ rowId \notin DOMAIN tab

\* C22: inside the transaction of delete the modell row is deleted first,
\* before any sitzplatz row and before the flugzeug row; a sitzplatz row is
\* deleted after the modell and before the flugzeug row; the flugzeug row is
\* deleted last, when the fetched modell and every fetched sitzplatz is gone.
C22_DeleteOrder ==
    [][\A p \in Procs :
          /\ loc'[p].tx.modell \ loc[p].tx.modell # {}
             => (/\ pc[p] = "deleteModell"
                 /\ loc[p].tx = NoTx
                 /\ loc'[p].tx.sitzplatz = {}
                 /\ loc'[p].tx.flugzeug = {})
          /\ loc'[p].tx.sitzplatz \ loc[p].tx.sitzplatz # {}
             => (/\ pc[p] = "deleteSitzplaetze"
                 /\ loc[p].tx.flugzeug = {}
                 /\ loc'[p].tx.flugzeug = {}
                 /\ Gone(p, "modell", modellTab, loc[p].db[1].modell[1].id))
          /\ loc'[p].tx.flugzeug \ loc[p].tx.flugzeug # {}
             => (/\ pc[p] = "deleteSitzplaetze"
                 /\ loc'[p].tx.flugzeug = {req[p].id}
                 /\ Gone(p, "modell", modellTab, loc[p].db[1].modell[1].id)
                 /\ \A sid \in FetchedSitzplaetze(p) : Gone(p, "sitzplatz", sitzplatzTab, sid))]_vars

\* a transaction has deleted the modell, a sitzplatz and the flugzeug row
C22_Witness ==
    \E p \in Procs :
        /\ pc[p] = "commit"
        /\ loc[p].tx.modell # {}
        /\ loc[p].tx.sitzplatz # {}
        /\ loc[p].tx.flugzeug = {req[p].id}

\* C23: delete returns true if and only if the delete of the flugzeug row
\* has affected a row, which it does if and only if the row was stored; and
\* of two deletes of a stored id that have both passed the lookup, the one
\* that finds a sitzplatz it has fetched deleted by the other affects no
\* flugzeug row and returns false.
C23_DeleteReturnsAffected ==
    [][\A p \in DOMAIN pc :
          /\ (Leaves(p, "commit") /\ last'.kind = "ok")
             => (/\ last'.op = "delete"
                 /\ last'.value = (IF loc[p].affected > 0 THEN 1 ELSE 0))
          /\ (pc[p] = "deleteSitzplaetze" /\ pc'[p] = "commit")
             => (/\ loc'[p].affected > 0 <=> req[p].id \in DOMAIN flugzeugTab
                 /\ (\E sid \in FetchedSitzplaetze(p) : sid \notin DOMAIN sitzplatzTab)
                    => loc'[p].affected = 0)]_vars

(***************************************************************************)
(* Properties of the two QueryBuilder classes.                             *)
(***************************************************************************)
\* the criteria build was given: the modell if it is a string, and the
\* properties other than modell
ModellCriterion(props) ==
    SelectSeq(props, LAMBDA kv : kv.key = "modell" /\ kv.type = "string")

RestCriteria(props) == SelectSeq(props, LAMBDA kv : kv.key # "modell")

\* C24: for every criteria object, the query build has compiled holds
\* exactly one condition per criterion, the ilike condition on the modell
\* when that value is a string and one equality per other key, in the order
\* of the keys; only the first condition is attached with where and every
\* later one with andWhere, so the WHERE clause holds every condition.
C24_OnePredicatePerCriterion ==
    (gelesen.compiled /\ last.op \in {"build", "buildPart001"})
    => LET props == gelesen.suchkriterien.props
           calls == gelesen.calls
           off == Len(ModellCriterion(props))
           rest == RestCriteria(props)
       IN /\ Len(calls) = off + Len(rest)
          /\ off = 1 => (calls[1].alias = "modell" /\ calls[1].operator = "ilike")
          /\ \A k \in 1..Len(rest) :
                /\ calls[off + k].alias = "flugzeug"
                /\ calls[off + k].column = rest[k].key
                /\ calls[off + k].operator = "="
                /\ calls[off + k].parameters.value = rest[k].value
          /\ \A k \in 1..Len(calls) :
                calls[k].method = (IF k = 1 THEN "where" ELSE "andWhere")
          /\ Wheres(calls) = calls

\* build has compiled criteria with a modell that is a string and another key
C24_Witness ==
    /\ gelesen.compiled
    /\ last.op = "build"
    /\ Len(gelesen.calls) = 2
    /\ gelesen.calls[1].alias = "modell"
    /\ gelesen.calls[2].method = "andWhere"

\* C25: every condition a query builder has compiled carries the value of
\* the criterion in a parameter: the placeholder of the condition has a
\* parameter of the same name attached with it; and the relation joined
\* under the alias modell is the modell of the flugzeug, the column of the
\* condition on the name of the modell is a column of it, and every other
\* join is of a relation of the flugzeug.
C25_BoundParameters ==
    gelesen.compiled
    => /\ \A k \in 1..Len(gelesen.calls) :
             /\ gelesen.calls[k].placeholder = gelesen.calls[k].parameters.name
             /\ gelesen.calls[k].alias = "modell"
                => gelesen.calls[k].column \in Columns("modell")
       /\ \A k \in 1..Len(gelesen.joins) :
             /\ gelesen.joins[k].relation \in {"modell", "sitzplaetze"}
             /\ gelesen.joins[k].alias = "modell" => gelesen.joins[k].relation = "modell"

C27_BackReferencesSet ==
    \A p \in Procs :
        req[p].op = "create"
        => /\ \A i \in 1..Len(req[p].flugzeug.modell) :
                 req[p].flugzeug.modell[i].flugzeug = "this"
           /\ \A i \in 1..Len(req[p].flugzeug.sitzplaetze.items) :
                 req[p].flugzeug.sitzplaetze.items[i].flugzeug = "this"

(***************************************************************************)
(* Properties of versions with more digits than the pattern allows.        *)
(***************************************************************************)
\* the version stored for id is VersionLimit or more
AtLimit(id) == id \in DOMAIN flugzeugTab /\ flugzeugTab[id].version >= VersionLimit

\* C28: the ETag of a PUT that has committed is the quoted version now
\* stored, and a PUT of the same id with that ETag as If-Match that follows
\* it with no step in between is not rejected with VersionInvalid, and not
\* with VersionOutdated while the stored version is still that of the ETag.
C28_ETagRoundTrip ==
    [][\A p \in Procs :
          /\ (Leaves(p, "save") /\ last'.kind = "ok")
             => (/\ last'.id \in DOMAIN flugzeugTab'
                 /\ putResponse(last'.value).etag
                       = QuotedVersion(flugzeugTab'[last'.id].version))
          /\ \A flugzeugDTO \in FlugzeugDtosOhneRef :
                (/\ last.op = "update"
                 /\ last.kind = "ok"
                 /\ put(p, last.id, flugzeugDTO, Header(putResponse(last.value).etag)))
                => last'.kind # "VersionInvalid"
          /\ (/\ Leaves(p, "validateUpdate")
              /\ req[p].id \in DOMAIN flugzeugTab
              /\ req[p].version = putResponse(flugzeugTab[req[p].id].version).etag)
             => last'.kind # "VersionOutdated"]_vars

\* the calls of update of an aircraft whose stored version is VersionLimit
\* or more: a token the pattern rejects gives VersionInvalid, any other
\* token is parsed to less than VersionLimit and gives VersionOutdated
RejectedAtLimit ==
    /\ \A p \in Procs :
          /\ (pc[p] = "idle" /\ pc'[p] = "validateUpdate")
             => (loc'[p].version # NaN /\ loc'[p].version < VersionLimit)
          /\ (Leaves(p, "validateUpdate") /\ AtLimit(req[p].id))
             => (last'.kind = "VersionOutdated" /\ UNCHANGED Tables)
    /\ (UNCHANGED pc /\ last'.op \in {"update", "put"} /\ AtLimit(last'.id))
          => (/\ last'.kind \in {"VersionInvalid", "PreconditionRequired"}
              /\ UNCHANGED Tables)

\* C29 as stated: once the version stored for an aircraft is VersionLimit,
\* every update of it is rejected with VersionInvalid or VersionOutdated and
\* no update of it commits, so its version stays as it is.
C29_VersionFrozen ==
    [][/\ RejectedAtLimit
       /\ \A id \in DOMAIN flugzeugTab :
             AtLimit(id)
             => (id \in DOMAIN flugzeugTab' => flugzeugTab'[id] = flugzeugTab[id])]_vars

\* C29, amended: once the version stored for an aircraft is VersionLimit,
\* every update of it that is called from then on is rejected with
\* VersionInvalid or VersionOutdated; the row is written only by the save of
\* an update that had fetched it at a version below VersionLimit, which
\* raises the version by one.
C29_NoNewUpdateAtLimit ==
    [][/\ RejectedAtLimit
       /\ \A id \in DOMAIN flugzeugTab :
             (AtLimit(id) /\ id \in DOMAIN flugzeugTab' /\ flugzeugTab'[id] # flugzeugTab[id])
             => \E p \in Procs :
                   /\ Leaves(p, "save")
                   /\ req[p].id = id
                   /\ loc[p].db[1].version < VersionLimit
                   /\ flugzeugTab'[id].version = flugzeugTab[id].version + 1]_vars

\* an update that had passed its comparison before has raised the version
\* above VersionLimit, and an update called after that was rejected
C29_Witness ==
    /\ AtLimit(1)
    /\ flugzeugTab[1].version > VersionLimit
    /\ last.op = "update"
    /\ last.kind = "VersionOutdated"

(***************************************************************************)
(* Properties of an update interleaved with a delete.                      *)
(***************************************************************************)
\* C30: an update that has fetched its aircraft and whose aircraft a delete
\* has removed since does not bring it back: when the row of its id is
\* stored no more, its save leaves no row of that id in flugzeugTab.
C30_UpdateDoesNotResurrect ==
    [][\A p \in DOMAIN pc :
          (Leaves(p, "save") /\ req[p].id \notin DOMAIN flugzeugTab)
          => req[p].id \notin DOMAIN flugzeugTab']_vars

====
